---- MODULE Spec2Model ----
(***************************************************************************)
(* Model of jaxrts/elements.py: the orbital filling loop of                *)
(* electron_distribution, run statement by statement, and the Element      *)
(* class (constructor, equality, repr, attribute reads).                   *)
(***************************************************************************)
EXTENDS Integers, Sequences, FiniteSets, TLC

VARIABLES
    atomic_number,        \* argument of the running electron_distribution call
    electrons_remaining,  \* local of electron_distribution
    occupancy,            \* local of electron_distribution
    n,                    \* loop variable of the outer for
    l,                    \* loop variable of the inner for
    pc,                   \* position inside electron_distribution
    a,                    \* the client's reference to an Element (or None)
    last,                 \* the most recent Element operation and its outcome
    pair                  \* two electron_distribution calls and their results

vars == <<atomic_number, electrons_remaining, occupancy, n, l, pc, a, last, pair>>

----------------------------------------------------------------------------
(* Bounds of the model *)

AtomicNumbersBelowZero == 2
MaxAtomicNumber == 125
MaxPairNumber == 62
IdentifiersBelowZero == 1
MaxIdentifier == 38
HalvesBelowZero == 3
MaxHalves == 5

----------------------------------------------------------------------------
(* Static tables, elements.py lines 12-125 *)

\* Cobalt entered with the symbol of carbon.
_element_symbols_duplicate ==
    <<"H", "He", "Li", "Be", "B", "C", "N", "O", "F", "Ne", "Na", "Mg",
      "Al", "Si", "P", "S", "Cl", "Ar", "K", "Ca", "Sc", "Ti", "V", "Cr",
      "Mn", "Fe", "C", "Ni", "Cu", "Zn", "Ga", "Ge", "As", "Se", "Br", "Kr">>

_element_symbols ==
    <<"H", "He", "Li", "Be", "B", "C", "N", "O", "F", "Ne", "Na", "Mg",
      "Al", "Si", "P", "S", "Cl", "Ar", "K", "Ca", "Sc", "Ti", "V", "Cr",
      "Mn", "Fe", "Co", "Ni", "Cu", "Zn", "Ga", "Ge", "As", "Se", "Br", "Kr">>

_element_names ==
    <<"Hydrogen", "Helium", "Lithium", "Beryllium", "Boron", "Carbon",
      "Nitrogen", "Oxygen", "Fluorine", "Neon", "Sodium", "Magnesium",
      "Aluminum", "Silicon", "Phosphorus", "Sulfur", "Chlorine", "Argon",
      "Potassium", "Calcium", "Scandium", "Titanium", "Vanadium", "Chromium",
      "Manganese", "Iron", "Cobalt", "Nickel", "Copper", "Zinc", "Gallium",
      "Germanium", "Arsenic", "Selenium", "Bromine", "Krypton">>

\* The masses are decimal literals; they are kept as written in the table.
_element_masses ==
    <<"1.008", "4.002602", "6.94", "9.0121831", "10.81", "12.011", "14.007",
      "15.999", "18.998403163", "20.1797", "22.98976928", "24.305",
      "26.9815385", "28.085", "30.973761998", "32.06", "35.45", "39.948",
      "39.0983", "40.078", "44.955908", "47.867", "50.9415", "51.9961",
      "54.938044", "55.845", "58.933194", "58.6934", "63.546", "65.38",
      "69.723", "72.63", "74.921595", "78.971", "79.904", "83.798">>

----------------------------------------------------------------------------
(* electron_distribution, elements.py lines 128-168 *)

\* range(1, 5): the outer for stops before this n.
ShellStop == 5

\* The "+ 1" is lost: an s orbital holds nothing.
max_electrons_zero(ll) == 2 * (2 * ll)

\* line 152
max_electrons(ll) == 2 * (2 * ll + 1)

\* The partly filled shell is recorded as full.
ShellVisit_full(s, ll) ==
    IF s.rem >= max_electrons(ll)
    THEN [rem |-> s.rem - max_electrons(ll), occ |-> Append(s.occ, max_electrons(ll))]
    ELSE [rem |-> 0, occ |-> Append(s.occ, max_electrons(ll))]

\* The partly filled shell records its free places instead of its electrons.
ShellVisit_holes(s, ll) ==
    IF s.rem >= max_electrons(ll)
    THEN [rem |-> s.rem - max_electrons(ll), occ |-> Append(s.occ, max_electrons(ll))]
    ELSE [rem |-> 0, occ |-> Append(s.occ, max_electrons(ll) - s.rem)]

\* lines 154-159: one visit of shell l with the locals s = [rem, occ].
ShellVisit(s, ll) ==
    IF s.rem >= max_electrons(ll)
    THEN [rem |-> s.rem - max_electrons(ll), occ |-> Append(s.occ, max_electrons(ll))]
    ELSE [rem |-> 0, occ |-> Append(s.occ, s.rem)]

\* The inner break is missing.
InnerBreak_never(rem) == FALSE

\* line 161: break out of the inner for.
InnerBreak(rem) == rem = 0

\* line 163: break out of the outer for.
OuterBreak(rem) == rem = 0

\* line 165: break out of the while.
WhileBreak(rem) == rem = 0

\* line 149: the while condition.
WhileCond(rem) == rem > 0

(* The same function, statement by statement. *)

\* A call starts: lines 146-147.
Call(z) ==
    /\ pc = "idle"
    /\ atomic_number' = z
    /\ electrons_remaining' = z
    /\ occupancy' = << >>
    /\ n' = 0
    /\ l' = 0
    /\ pc' = "while"
    /\ UNCHANGED <<a, last, pair>>

\* line 149 true, lines 150-151: both ranges are non-empty at their start.
WhileEnter ==
    /\ pc = "while"
    /\ WhileCond(electrons_remaining)
    /\ n' = 1
    /\ l' = 0
    /\ pc' = "visit"
    /\ UNCHANGED <<atomic_number, electrons_remaining, occupancy, a, last, pair>>

\* line 149 false: fall through to the return statement.
WhileExit ==
    /\ pc = "while"
    /\ ~WhileCond(electrons_remaining)
    /\ pc' = "return"
    /\ UNCHANGED <<atomic_number, electrons_remaining, occupancy, n, l, a, last, pair>>

\* lines 152-159
Visit ==
    /\ pc = "visit"
    /\ LET t == ShellVisit([rem |-> electrons_remaining, occ |-> occupancy], l)
       IN  /\ electrons_remaining' = t.rem
           /\ occupancy' = t.occ
    /\ pc' = "inner_check"
    /\ UNCHANGED <<atomic_number, n, l, a, last, pair>>

\* "for l in range(n + 1)": one orbital too many in every shell.
InnerCheck_offByOne ==
    /\ pc = "inner_check"
    /\ IF InnerBreak(electrons_remaining)
       THEN pc' = "outer_check" /\ l' = l
       ELSE IF l + 1 < n + 1
            THEN pc' = "visit" /\ l' = l + 1
            ELSE pc' = "outer_check" /\ l' = l
    /\ UNCHANGED <<atomic_number, electrons_remaining, occupancy, n, a, last, pair>>

\* lines 161-162, and the next iteration of "for l in range(n)"
InnerCheck ==
    /\ pc = "inner_check"
    /\ IF InnerBreak(electrons_remaining)
       THEN pc' = "outer_check" /\ l' = l
       ELSE IF l + 1 < n
            THEN pc' = "visit" /\ l' = l + 1
            ELSE pc' = "outer_check" /\ l' = l
    /\ UNCHANGED <<atomic_number, electrons_remaining, occupancy, n, a, last, pair>>

\* lines 163-164, and the next iteration of "for n in range(1, 5)"
OuterCheck ==
    /\ pc = "outer_check"
    /\ IF OuterBreak(electrons_remaining)
       THEN pc' = "while_check" /\ n' = n /\ l' = l
       ELSE IF n + 1 < ShellStop
            THEN pc' = "visit" /\ n' = n + 1 /\ l' = 0
            ELSE pc' = "while_check" /\ n' = n /\ l' = l
    /\ UNCHANGED <<atomic_number, electrons_remaining, occupancy, a, last, pair>>

\* lines 165-166, and the re-evaluation of the while condition
WhileCheck ==
    /\ pc = "while_check"
    /\ IF WhileBreak(electrons_remaining)
       THEN pc' = "return"
       ELSE pc' = "while"
    /\ UNCHANGED <<atomic_number, electrons_remaining, occupancy, n, l, a, last, pair>>

\* line 168: occupancy is handed to orbital_array and the call ends.
Return ==
    /\ pc = "return"
    /\ pc' = "done"
    /\ UNCHANGED <<atomic_number, electrons_remaining, occupancy, n, l, a, last, pair>>

\* The caller takes the result; the next call may start.
Finish ==
    /\ pc = "done"
    /\ pc' = "idle"
    /\ atomic_number' = 0
    /\ electrons_remaining' = 0
    /\ occupancy' = << >>
    /\ n' = 0
    /\ l' = 0
    /\ UNCHANGED <<a, last, pair>>

(* The same function as an operator, loop by loop. *)

RECURSIVE InnerFor(_, _, _)
InnerFor(s, nn, ll) ==
    IF ll >= nn THEN s
    ELSE LET t == ShellVisit(s, ll)
         IN  IF InnerBreak(t.rem) THEN t ELSE InnerFor(t, nn, ll + 1)

RECURSIVE OuterFor(_, _)
OuterFor(s, nn) ==
    IF nn >= ShellStop THEN s
    ELSE LET t == InnerFor(s, nn, 0)
         IN  IF OuterBreak(t.rem) THEN t ELSE OuterFor(t, nn + 1)

RECURSIVE WhileLoop(_)
WhileLoop(s) ==
    IF WhileCond(s.rem)
    THEN LET t == OuterFor(s, 1)
         IN  IF WhileBreak(t.rem) THEN t ELSE WhileLoop(t)
    ELSE s

\* The list that line 168 hands to orbital_array.
electron_distribution(z) == WhileLoop([rem |-> z, occ |-> << >>]).occ

None == [type |-> "None"]

FillInit ==
    /\ atomic_number = 0
    /\ electrons_remaining = 0
    /\ occupancy = << >>
    /\ n = 0
    /\ l = 0
    /\ pc = "idle"

ElementInit ==
    /\ a = None
    /\ last = [op |-> "none"]

PairInit == pair = [called |-> FALSE]

Init == FillInit /\ ElementInit /\ PairInit

Step ==
    \/ WhileEnter
    \/ WhileExit
    \/ Visit
    \/ InnerCheck
    \/ OuterCheck
    \/ WhileCheck
    \/ Return

Next ==
    \/ \E z \in -AtomicNumbersBelowZero..MaxAtomicNumber : Call(z)
    \/ Step
    \/ Finish

Spec == Init /\ [][Next]_vars

\* The interpreter runs the statements of a call in sequence, without pause.
FairSpec == Init /\ [][Next]_vars /\ WF_vars(Step)

----------------------------------------------------------------------------
(* Collaborators from jaxrts.helpers and jaxrts.units (imported, lines 9-10) *)

Range(f) == {f[k] : k \in DOMAIN f}

\* helpers.invert_dict: the reverse mapping; of two keys with one value the
\* later key stays.
invert_dict(d) ==
    [v \in Range(d) |->
        CHOOSE k \in DOMAIN d : d[k] = v /\ \A j \in DOMAIN d : d[j] = v => j <= k]

\* The fixed layout of helpers.orbital_array: one slot per orbital 1s..4f.
OrbitalSlots == 10

\* helpers.orbital_array(*occupancy): the counts in their slots, the other
\* slots zero.  It is only applied to at most OrbitalSlots counts here.
orbital_array(occ) == [i \in 1..OrbitalSlots |-> IF i <= Len(occ) THEN occ[i] ELSE 0]

\* value * (1 * ureg.atomic_mass_constant)
Quantity(value) == [magnitude |-> value, units |-> "atomic_mass_constant"]

----------------------------------------------------------------------------
(* class Element, elements.py lines 171-208 *)

\* An identifier is a str, an int, or a float given in halves.
StrId(s) == [type |-> "str", str |-> s]
IntId(i) == [type |-> "int", int |-> i]
FloatId(h) == [type |-> "float", halves |-> h]

\* int(identifier), line 179: an int is itself, a float is truncated towards zero.
int(identifier) ==
    IF identifier.type = "int" THEN identifier.int
    ELSE IF identifier.halves >= 0 THEN identifier.halves \div 2
         ELSE -((-identifier.halves) \div 2)

\* An object's attributes: the empty object has none.
NoAttributes == << >>

\* The name is read from the symbol table.
InitRest_symbolAsName(self) ==
    IF self.Z \notin DOMAIN _element_symbols
    THEN [raised |-> "KeyError", self |-> self]
    ELSE LET s1 == self @@ [name |-> _element_symbols[self.Z]]
             s2 == s1 @@ [electron_distribution |->
                              orbital_array(electron_distribution(self.Z))]
         IN  IF self.Z \notin DOMAIN _element_masses
             THEN [raised |-> "KeyError", self |-> s2]
             ELSE [raised |-> "none",
                   self |-> s2 @@ [atomic_mass |-> Quantity(_element_masses[self.Z])]]

\* lines 182-190, entered with Z and symbol set.  A failed table lookup
\* raises KeyError and leaves the attributes assigned so far.
InitRest(self) ==
    IF self.Z \notin DOMAIN _element_names
    THEN [raised |-> "KeyError", self |-> self]
    ELSE LET s1 == self @@ [name |-> _element_names[self.Z]]
             s2 == s1 @@ [electron_distribution |->
                              orbital_array(electron_distribution(self.Z))]
         IN  IF self.Z \notin DOMAIN _element_masses
             THEN [raised |-> "KeyError", self |-> s2]
             ELSE [raised |-> "none",
                   self |-> s2 @@ [atomic_mass |-> Quantity(_element_masses[self.Z])]]

\* invert_dict(_element_symbols), line 175
inverted_symbols == invert_dict(_element_symbols)

\* Element.__init__, lines 172-190
Element_init(identifier) ==
    IF identifier.type = "str"
    THEN \* line 175: the lookup comes before the assignment to self.Z
         IF identifier.str \notin DOMAIN inverted_symbols
         THEN [raised |-> "KeyError", self |-> NoAttributes]
         ELSE InitRest([Z |-> inverted_symbols[identifier.str],
                        symbol |-> identifier.str])
    ELSE \* line 179 assigns self.Z, line 180 then looks the symbol up
         LET s1 == [Z |-> int(identifier)]
         IN  IF s1.Z \notin DOMAIN _element_symbols
             THEN [raised |-> "KeyError", self |-> s1]
             ELSE InitRest(s1 @@ [symbol |-> _element_symbols[s1.Z]])

ElementObj(attrs) == [type |-> "Element", dict |-> attrs]

\* A value of another type compares unequal instead of raising.
Element_eq_false(self, other) ==
    IF other.type # "Element"
    THEN [raised |-> "none", value |-> FALSE]
    ELSE [raised |-> "none", value |-> (self.dict.Z = other.dict.Z)]

\* Element.__eq__, lines 192-205
Element_eq(self, other) ==
    IF other.type # "Element"
    THEN [raised |-> "NotImplementedError"]
    ELSE [raised |-> "none", value |-> (self.dict.Z = other.dict.Z)]

Digit == <<"0", "1", "2", "3", "4", "5", "6", "7", "8", "9">>

\* The decimal digits of a non-negative int, as the f-string formats it.
RECURSIVE Decimal(_)
Decimal(i) ==
    IF i < 10 THEN <<Digit[i + 1]>>
    ELSE Append(Decimal(i \div 10), Digit[(i % 10) + 1])

\* Element.__repr__, lines 207-208: the pieces of the f-string in order.
Element_repr(self) ==
    <<"Element ", self.dict.name, " (", self.dict.symbol, ") Z=">> \o Decimal(self.dict.Z)

(* The client holds one reference, a, and uses the exposed operations. *)

UnknownSymbols == {"Xx", "h", ""}

Identifiers ==
    {StrId(s) : s \in Range(_element_symbols) \cup UnknownSymbols}
        \cup {IntId(i) : i \in -IdentifiersBelowZero..MaxIdentifier}
        \cup {FloatId(h) : h \in -HalvesBelowZero..MaxHalves}

\* Every Element a successful construction yields, by symbol or by number.
Elements ==
    {ElementObj(Element_init(identifier).self) :
        identifier \in {i \in Identifiers : Element_init(i).raised = "none"}}

\* Values that are not Elements.
Foreign == {None, IntId(1), StrId("H")}

Attributes == {"Z", "symbol", "name", "electron_distribution", "atomic_mass"}

\* a = Element(identifier)
Construct(identifier) ==
    LET r == Element_init(identifier)
    IN  /\ last' = [op |-> "Element", identifier |-> identifier,
                    raised |-> r.raised, self |-> r.self]
        /\ a' = IF r.raised = "none" THEN ElementObj(r.self) ELSE a
        /\ UNCHANGED <<atomic_number, electrons_remaining, occupancy, n, l, pc, pair>>

\* a == other
Eq(other) ==
    /\ a.type = "Element"
    /\ last' = [op |-> "eq", other |-> other] @@ Element_eq(a, other)
    /\ UNCHANGED <<a, atomic_number, electrons_remaining, occupancy, n, l, pc, pair>>

\* repr(a)
Repr ==
    /\ a.type = "Element"
    /\ last' = [op |-> "repr", value |-> Element_repr(a)]
    /\ UNCHANGED <<a, atomic_number, electrons_remaining, occupancy, n, l, pc, pair>>

\* a.attribute
GetAttr(attribute) ==
    /\ a.type = "Element"
    /\ last' = [op |-> "getattr", attribute |-> attribute, value |-> a.dict[attribute]]
    /\ UNCHANGED <<a, atomic_number, electrons_remaining, occupancy, n, l, pc, pair>>

ElementNext ==
    \/ \E identifier \in Identifiers : Construct(identifier)
    \/ \E other \in Elements \cup Foreign : Eq(other)
    \/ Repr
    \/ \E attribute \in Attributes : GetAttr(attribute)

ElementSpec == Init /\ [][ElementNext]_vars

----------------------------------------------------------------------------
(* Two calls of electron_distribution side by side *)

\* occ1 = electron_distribution(z1); occ2 = electron_distribution(z2)
PairCall(z1, z2) ==
    /\ ~pair.called
    /\ pair' = [called |-> TRUE, Z1 |-> z1, Z2 |-> z2,
                occ1 |-> electron_distribution(z1),
                occ2 |-> electron_distribution(z2)]
    /\ UNCHANGED <<atomic_number, electrons_remaining, occupancy, n, l, pc, a, last>>

\* The two results are dropped; another pair may be drawn.
PairDrop ==
    /\ pair.called
    /\ pair' = [called |-> FALSE]
    /\ UNCHANGED <<atomic_number, electrons_remaining, occupancy, n, l, pc, a, last>>

PairNext ==
    \/ \E z1 \in 1..MaxPairNumber, z2 \in 1..MaxPairNumber : PairCall(z1, z2)
    \/ PairDrop

PairSpec == Init /\ [][PairNext]_vars

----------------------------------------------------------------------------
(* Properties of electron_distribution *)

RECURSIVE SumSeq(_)
SumSeq(q) == IF q = << >> THEN 0 ELSE q[1] + SumSeq(Tail(q))

\* The atomic numbers of the tables.
TableNumbers == 1..36

\* The shells 1s,2s,2p,3s,3p,3d,4s,4p,4d,4f and what each holds.
RefCapacity == <<2, 2, 6, 2, 6, 10, 2, 6, 10, 14>>

\* The electrons the first k shells hold together.
RefCumulative(k) == SumSeq(SubSeq(RefCapacity, 1, k))

\* The first shell at which z electrons are all placed.
RefLen(z) == CHOOSE k \in 1..Len(RefCapacity) :
                 /\ RefCumulative(k) >= z
                 /\ \A j \in 1..(k - 1) : RefCumulative(j) < z

\* The greedy fill of z electrons, 1 <= z <= 60.
RefFill(z) ==
    [i \in 1..RefLen(z) |->
        IF z - RefCumulative(i - 1) >= RefCapacity[i]
        THEN RefCapacity[i]
        ELSE z - RefCumulative(i - 1)]

\* The shell that entry i of the occupancy list was counted for.
RefShell(i) == ((i - 1) % Len(RefCapacity)) + 1

\* C1: for every Z in 1..36 the entries of the list that
\* electron_distribution(Z) hands to orbital_array sum to Z.
ElectronCountConserved ==
    (pc = "done" /\ atomic_number \in TableNumbers)
        => SumSeq(occupancy) = atomic_number

ElectronCountConservedWitness ==
    /\ pc = "done"
    /\ atomic_number = 36
    /\ occupancy = <<2, 2, 6, 2, 6, 10, 2, 6>>
    /\ SumSeq(occupancy) = 36

\* C2: for every Z in 1..36 the list equals the greedy fill over the shell
\* order 1s,2s,2p,3s,3p,3d,4s,4p,4d,4f; 3d is filled before 4s (Z=19 gives
\* [2,2,6,2,6,1]) and Z = 1, 2, 10 give [1], [2], [2,2,6].
GreedyFillInShellOrder ==
    (pc = "done" /\ atomic_number \in TableNumbers)
        => /\ occupancy = RefFill(atomic_number)
           /\ atomic_number = 1 => occupancy = <<1>>
           /\ atomic_number = 2 => occupancy = <<2>>
           /\ atomic_number = 10 => occupancy = <<2, 2, 6>>
           /\ atomic_number = 19 => occupancy = <<2, 2, 6, 2, 6, 1>>

GreedyFillInShellOrderWitness ==
    /\ pc = "done"
    /\ atomic_number = 19
    /\ occupancy = <<2, 2, 6, 2, 6, 1>>

\* C7: called with an atomic number above 60, electron_distribution stops
\* after one pass over the shells n=1..4: the list is exactly the ten full
\* capacities and the surplus electrons are dropped.
TruncatedAfterFourShells ==
    (pc = "done" /\ atomic_number > RefCumulative(Len(RefCapacity)))
        => occupancy = RefCapacity

\* C9: for every integer atomic_number the filling loop exits:
\* electrons_remaining is positive at every shell visit and strictly smaller
\* after it, the loop body is not entered when electrons_remaining is not
\* positive, and every call that starts reaches its return.
FillingLoopTerminates ==
    /\ [][(pc = "visit" /\ pc' = "inner_check")
             => (electrons_remaining > 0
                 /\ electrons_remaining' < electrons_remaining)]_vars
    /\ [][(pc = "while" /\ electrons_remaining <= 0) => pc' = "return"]_vars
    /\ (pc = "while") ~> (pc = "done")

\* A call that went through the shells three times has returned.
FillingLoopTerminatesWitness ==
    /\ pc = "done"
    /\ atomic_number > 2 * RefCumulative(Len(RefCapacity))
    /\ Len(occupancy) > 2 * Len(RefCapacity)
    /\ electrons_remaining = 0

\* C10: for atomic_number >= 1, at every point of the loop and in the final
\* list, no entry is zero, every entry but the last is the full capacity of
\* its shell and the last is between 1 and its shell's capacity; no shell is
\* visited with zero electrons remaining; for atomic_number <= 0 the list is
\* empty.
NoEmptyShellRecorded ==
    /\ atomic_number >= 1 =>
          \A i \in 1..Len(occupancy) :
              /\ occupancy[i] # 0
              /\ i < Len(occupancy) => occupancy[i] = RefCapacity[RefShell(i)]
              /\ i = Len(occupancy) =>
                    (1 <= occupancy[i] /\ occupancy[i] <= RefCapacity[RefShell(i)])
    /\ (atomic_number >= 1 /\ pc = "visit") => electrons_remaining > 0
    /\ atomic_number <= 0 => occupancy = << >>

\* A finished call whose last shell is partly filled.
NoEmptyShellRecordedWitness ==
    /\ pc = "done"
    /\ atomic_number = 21
    /\ occupancy = <<2, 2, 6, 2, 6, 3>>

\* C8: for Z1 < Z2, both in 1..60, the list of Z1 is no longer than that of
\* Z2 and no entry of it exceeds the entry of Z2 for the same shell.
MonotoneInAtomicNumber ==
    (/\ pair.called
     /\ pair.Z1 < pair.Z2
     /\ pair.Z1 \in 1..RefCumulative(Len(RefCapacity))
     /\ pair.Z2 \in 1..RefCumulative(Len(RefCapacity)))
        => /\ Len(pair.occ1) <= Len(pair.occ2)
           /\ \A i \in 1..Len(pair.occ1) : pair.occ1[i] <= pair.occ2[i]

\* Z1 ends in a partly filled shell that Z2 fills further.
MonotoneInAtomicNumberWitness ==
    /\ pair.called
    /\ pair.Z1 = 5
    /\ pair.Z2 = 6
    /\ pair.occ1 = <<2, 2, 1>>
    /\ pair.occ2 = <<2, 2, 2>>

----------------------------------------------------------------------------
(* Properties of Element *)

\* C3: for every Z in 1..36, Element(Z) has Z as its Z, and an Element
\* constructed from the symbol of an Element has the same Z again.
SymbolRoundTrip ==
    /\ [](  (/\ last.op = "Element"
             /\ last.identifier.type = "int"
             /\ last.identifier.int \in TableNumbers)
               => /\ last.raised = "none"
                  /\ a.dict.Z = last.identifier.int
                  /\ Element_init(StrId(a.dict.symbol)).raised = "none"
                  /\ Element_init(StrId(a.dict.symbol)).self.Z = last.identifier.int)
    /\ [][(/\ a.type = "Element"
           /\ last'.op = "Element"
           /\ last'.identifier = StrId(a.dict.symbol))
             => (last'.raised = "none" /\ a'.dict.Z = a.dict.Z)]_vars

\* Krypton was constructed from its symbol.
SymbolRoundTripWitness ==
    /\ last.op = "Element"
    /\ last.identifier = StrId("Kr")
    /\ last.raised = "none"
    /\ a.type = "Element"
    /\ a.dict.Z = 36

\* C4: a == b is true exactly when a.Z = b.Z, so equality is reflexive and
\* symmetric; comparing an Element with a value that is not an Element ends
\* in an error and returns no boolean.
EqualityByZ ==
    /\ last.op = "eq" =>
          IF last.other.type = "Element"
          THEN /\ last.raised = "none"
               /\ last.value = (a.dict.Z = last.other.dict.Z)
               /\ Element_eq(last.other, a) = [raised |-> "none", value |-> last.value]
               /\ Element_eq(a, a) = [raised |-> "none", value |-> TRUE]
          ELSE /\ last.raised # "none"
               /\ "value" \notin DOMAIN last

\* Two Elements of different Z compared unequal.
EqualityByZWitness ==
    /\ last.op = "eq"
    /\ last.other.type = "Element"
    /\ last.other.dict.Z # a.dict.Z
    /\ last.value = FALSE

\* C5: constructing an Element from a symbol that is not in the table, or
\* from an integer outside 1..36, ends in a lookup failure and leaves no
\* Element with any attribute set, Z included.
NoPartialElement ==
    (/\ last.op = "Element"
     /\ \/ (last.identifier.type = "str"
               /\ last.identifier.str \notin Range(_element_symbols))
        \/ (last.identifier.type = "int"
               /\ last.identifier.int \notin TableNumbers))
        => /\ last.raised = "KeyError"
           /\ DOMAIN last.self = {}

\* C6: after a successful construction and any sequence of attribute reads,
\* comparisons and string conversions, symbol, name and atomic mass are the
\* table entries for Z, electron_distribution is electron_distribution(Z),
\* and no attribute has changed since the construction.
AttributesConsistentAndFixed ==
    /\ [](a.type = "Element" =>
            /\ DOMAIN a.dict = Attributes
            /\ a.dict.Z \in TableNumbers
            /\ a.dict.symbol = _element_symbols[a.dict.Z]
            /\ a.dict.name = _element_names[a.dict.Z]
            /\ a.dict.atomic_mass = Quantity(_element_masses[a.dict.Z])
            /\ a.dict.electron_distribution
                   = orbital_array(electron_distribution(a.dict.Z)))
    /\ [][last'.op \in {"eq", "repr", "getattr"} => a' = a]_vars

\* Oxygen was constructed and its name has been read.
AttributesConsistentAndFixedWitness ==
    /\ a.type = "Element"
    /\ a.dict.Z = 8
    /\ last.op = "getattr"
    /\ last.attribute = "name"
    /\ last.value = "Oxygen"

====
